---- MODULE Spec2Model ----
(***************************************************************************)
(* Model of the dealership delivery-challan generator:                     *)
(*   finance_helper.py  fee calculator and document numbering              *)
(*   data_manager.py    ledger append                                      *)
(*   order.py           SalesOrder aggregate                               *)
(*   app.py             the submission form                                *)
(*                                                                         *)
(* Text the program inspects (names, ledger cells) is a sequence of        *)
(* one-character strings, so that parsing, padding and stripping are      *)
(* computed character by character; labels it only copies are strings.    *)
(* A Python float amount x is the integer x * Scale (two decimal places). *)
(***************************************************************************)
EXTENDS Integers, Sequences, FiniteSets, TLC

VARIABLES
    fee_in,        \* arguments of one calculate_finance_fees call
    fee_out,       \* its outcome, NoResult before the call
    sheet,         \* rows of worksheet Sales_Records, the header row first
    pc,            \* per submitter: "start", "numbered", "done"
    dc,            \* per submitter: the document number it was given
    seen,          \* per submitter: column 2 as get_next_dc_number read it
    did_read,       \* per submitter: whether that read succeeded
    saved,         \* per submitter: whether its append succeeded
    widgets,       \* the form's inputs as the user left them
    financiers,    \* st.session_state['financiers']
    ui,            \* the script's local values at the end of its last run
    order,         \* the SalesOrder built by the last run, or NoOrder
    outcome,       \* how the last run ended
    client,        \* app.py: whether GSPREAD_CLIENT is set
    all_dfs,       \* the cached result of app.py's load_and_cache_all_data
    ledger,        \* rows of worksheet sales_records
    run,           \* what the last submission run met and did
    inv_in,        \* the sales-records frame of one invoice-number call
    inv_out,       \* its outcome, NoResult before the call
    acc_in,        \* the tables of one accessory-bill call
    acc_out,       \* its outcome, NoResult before the call
    obj,           \* one SalesOrder object, NoOrder before its construction
    obj_op,        \* the last operation applied to it
    GSPREAD_CLIENT,  \* data_manager.py: whether the module-level client is set
    loader_cache,    \* st.cache entry of data_manager.load_and_cache_all_data
    app_data_cache,  \* st.cache_data entry of config.initialize_app_data
    sales_records,   \* worksheet Sales_Records, header first, invoice columns
    last_call,       \* the last direct call of load_and_cache_all_data
    subs             \* the submissions of the session, oldest first

fee_vars == <<fee_in, fee_out>>

dc_vars == <<sheet, pc, dc, seen, did_read, saved>>

ui_vars == <<widgets, financiers, ui, order, outcome, client, all_dfs, ledger, run>>

inv_vars == <<inv_in, inv_out>>

acc_vars == <<acc_in, acc_out>>

obj_vars == <<obj, obj_op>>

ses_vars == <<GSPREAD_CLIENT, loader_cache, app_data_cache, sales_records,
              last_call, subs>>

vars == <<fee_in, fee_out, sheet, pc, dc, seen, did_read, saved,
          widgets, financiers, ui, order, outcome, client, all_dfs, ledger, run,
          inv_in, inv_out, acc_in, acc_out, obj, obj_op,
          GSPREAD_CLIENT, loader_cache, app_data_cache, sales_records,
          last_call, subs>>

----------------------------------------------------------------------------
(* Bounds *)

MaxDDSteps == 2        \* booking amounts are 0 .. MaxDDSteps steps of DDStep
MaxHist == 3           \* rows already in the ledger at the start
MaxAccRows == 2        \* sales records read for the accessory invoice numbers
MaxFilled == 3         \* filled-in accessory slots of a BOM row
MaxSubmissions == 2    \* submissions of one session

----------------------------------------------------------------------------
(* Numbers and text *)

Scale == 100

DDStep == 100000 * Scale

Max(a, b) == IF a >= b THEN a ELSE b

\* float * float on two-decimal fixed point
FMul(a, b) == (a * b) \div Scale

Bank == <<"B", "a", "n", "k">>
LowerBank == <<"b", "a", "n", "k">>
HDFC == <<"H", "D", "F", "C">>
TVS == <<"T", "V", "S">>
NewCo == <<"N", "e", "w", "C", "o">>
Ravi == <<"R", "a", "v", "i">>
Asha == <<"A", "s", "h", "a">>
Phone == <<"9", "8", "4", "5">>
Empty == <<>>
Blank == <<" ", " ">>
NACash == <<"N", "/", "A", " ", "(", "C", "a", "s", "h", " ", "S", "a", "l", "e", ")">>

Digits == <<"0", "1", "2", "3", "4", "5", "6", "7", "8", "9">>

IsDigit(c) == \E i \in 1 .. 10 : Digits[i] = c

DigitVal(c) == (CHOOSE i \in 1 .. 10 : Digits[i] = c) - 1

IsSpace(c) == c \in {" ", "\t", "\n"}

RECURSIVE LStrip(_)
LStrip(s) == IF s # <<>> /\ IsSpace(Head(s)) THEN LStrip(Tail(s)) ELSE s

RECURSIVE RStrip(_)
RStrip(s) ==
    IF s # <<>> /\ IsSpace(s[Len(s)]) THEN RStrip(SubSeq(s, 1, Len(s) - 1)) ELSE s

\* str.strip()
Strip(s) == RStrip(LStrip(s))

\* digits with single underscores between them, as int() accepts
IsDigitBody(s) ==
    /\ s # <<>>
    /\ IsDigit(s[1])
    /\ IsDigit(s[Len(s)])
    /\ \A i \in 1 .. Len(s) : IsDigit(s[i]) \/ s[i] = "_"
    /\ \A i \in 1 .. Len(s) - 1 : ~(s[i] = "_" /\ s[i + 1] = "_")

RECURSIVE DigitBodyValue(_, _)
DigitBodyValue(s, acc) ==
    IF s = <<>> THEN acc
    ELSE IF Head(s) = "_" THEN DigitBodyValue(Tail(s), acc)
    ELSE DigitBodyValue(Tail(s), 10 * acc + DigitVal(Head(s)))

\* int(text): [ok |-> FALSE] stands for ValueError
ParseInt(text) ==
    LET t == Strip(text)
        signed == t # <<>> /\ Head(t) \in {"+", "-"}
        body == IF signed THEN Tail(t) ELSE t
    IN  IF IsDigitBody(body)
        THEN [ok |-> TRUE,
              value |-> IF signed /\ Head(t) = "-"
                        THEN 0 - DigitBodyValue(body, 0)
                        ELSE DigitBodyValue(body, 0)]
        ELSE [ok |-> FALSE]

RECURSIVE DecDigits(_)
DecDigits(n) ==
    IF n < 10 THEN <<Digits[n + 1]>>
    ELSE DecDigits(n \div 10) \o <<Digits[(n % 10) + 1]>>

RECURSIVE ZeroPad(_, _)
ZeroPad(s, width) == IF Len(s) >= width THEN s ELSE ZeroPad(<<"0">> \o s, width)

\* mutant: str(n), no padding
FormatZeroPadded_NoPad(n, width) ==
    IF n < 0 THEN <<"-">> \o DecDigits(0 - n) ELSE DecDigits(n)

\* format(n, "0{width}d"): the sign counts in the width, longer numbers are kept whole
FormatZeroPadded(n, width) ==
    IF n < 0 THEN <<"-">> \o ZeroPad(DecDigits(0 - n), width - 1)
    ELSE ZeroPad(DecDigits(n), width)

percentage_dd == "percentage_dd"
fixed_file == "fixed_file"

NoResult == [status |-> "none"]

\* pd.DataFrame(): a frame without columns
EmptyFrame == <<>>

----------------------------------------------------------------------------
(* finance_helper.py: fee calculator *)

HP_FEE_DEFAULT == 2000 * Scale
HP_FEE_BANK_QUOTATION == 500 * Scale

\* mutant: the rule's value is taken as the incentive whatever its kind
RuleIncentive_IgnoresKind(financier_name, dd_amount, incentive_rules) ==
    IF financier_name \in DOMAIN incentive_rules
    THEN [status |-> "return", incentive_earned |-> incentive_rules[financier_name].value]
    ELSE [status |-> "return", incentive_earned |-> 0]

\* mutant: the rule is looked up without the membership test
RuleIncentive_Unguarded(financier_name, dd_amount, incentive_rules) ==
    IF financier_name \notin DOMAIN incentive_rules
    THEN [status |-> "KeyError"]
    ELSE IF incentive_rules[financier_name].type = percentage_dd
    THEN [status |-> "return",
          incentive_earned |-> FMul(dd_amount, incentive_rules[financier_name].value)]
    ELSE IF incentive_rules[financier_name].type = fixed_file
    THEN [status |-> "return", incentive_earned |-> incentive_rules[financier_name].value]
    ELSE [status |-> "return", incentive_earned |-> 0]

\* the incentive of SCENARIO 3: rule lookup guarded by membership
RuleIncentive(financier_name, dd_amount, incentive_rules) ==
    IF financier_name \in DOMAIN incentive_rules
    THEN LET rule == incentive_rules[financier_name]
         IN  IF rule.type = percentage_dd
             THEN [status |-> "return", incentive_earned |-> FMul(dd_amount, rule.value)]
             ELSE IF rule.type = fixed_file
             THEN [status |-> "return", incentive_earned |-> rule.value]
             ELSE [status |-> "return", incentive_earned |-> 0]
    ELSE [status |-> "return", incentive_earned |-> 0]

\* mutant: no branch for "Bank"
calculate_finance_fees_BankAsOther(financier_name, dd_amount, out_finance_flag, incentive_rules) ==
    IF out_finance_flag
    THEN [status |-> "return", hp_fee_to_charge |-> 2000 * Scale, incentive_earned |-> 0]
    ELSE [status |-> "return", hp_fee_to_charge |-> 2000 * Scale,
          incentive_earned |->
              IF financier_name \in DOMAIN incentive_rules
                 /\ incentive_rules[financier_name].type = fixed_file
              THEN incentive_rules[financier_name].value
              ELSE IF financier_name \in DOMAIN incentive_rules
                      /\ incentive_rules[financier_name].type = percentage_dd
              THEN FMul(dd_amount, incentive_rules[financier_name].value)
              ELSE 0]

\* mutant: the "Bank" branch is tested before the external-financing flag
calculate_finance_fees_BankFirst(financier_name, dd_amount, out_finance_flag, incentive_rules) ==
    IF financier_name = Bank
    THEN [status |-> "return", hp_fee_to_charge |-> 500 * Scale, incentive_earned |-> 0]
    ELSE IF out_finance_flag
    THEN [status |-> "return", hp_fee_to_charge |-> 2000 * Scale, incentive_earned |-> 0]
    ELSE [status |-> "return", hp_fee_to_charge |-> 2000 * Scale,
          incentive_earned |->
              IF financier_name \in DOMAIN incentive_rules
                 /\ incentive_rules[financier_name].type = fixed_file
              THEN incentive_rules[financier_name].value
              ELSE IF financier_name \in DOMAIN incentive_rules
                      /\ incentive_rules[financier_name].type = percentage_dd
              THEN FMul(dd_amount, incentive_rules[financier_name].value)
              ELSE 0]

calculate_finance_fees(financier_name, dd_amount, out_finance_flag, incentive_rules) ==
    IF out_finance_flag
    THEN [status |-> "return", hp_fee_to_charge |-> HP_FEE_DEFAULT, incentive_earned |-> 0]
    ELSE IF financier_name = Bank
    THEN [status |-> "return", hp_fee_to_charge |-> HP_FEE_BANK_QUOTATION, incentive_earned |-> 0]
    ELSE LET inc == RuleIncentive(financier_name, dd_amount, incentive_rules)
         IN  IF inc.status = "return"
             THEN [status |-> "return", hp_fee_to_charge |-> HP_FEE_DEFAULT,
                   incentive_earned |-> inc.incentive_earned]
             ELSE [status |-> inc.status]

\* app.py computes the same policy inline on the form's values
AppRuleIncentive(financier_name, dd_amount, rules) ==
    IF financier_name \in DOMAIN rules
    THEN IF rules[financier_name].type = percentage_dd
         THEN FMul(dd_amount, rules[financier_name].value)
         ELSE IF rules[financier_name].type = fixed_file
         THEN rules[financier_name].value
         ELSE 0
    ELSE 0

AppFees(financier_name, dd_amount, out_finance_flag, rules) ==
    IF out_finance_flag
    THEN [hp_fee_to_charge |-> 2000 * Scale, incentive_earned |-> 0]
    ELSE IF financier_name = Bank
    THEN [hp_fee_to_charge |-> 500 * Scale, incentive_earned |-> 0]
    ELSE [hp_fee_to_charge |-> 2000 * Scale,
          incentive_earned |-> AppRuleIncentive(financier_name, dd_amount, rules)]

----------------------------------------------------------------------------
(* finance_helper.py: document numbering *)

DcWidth == 5

DcErrorPrefix == <<"D", "C", "-", "E", "R", "R", "O", "R", "-">>

\* the loop over dc_numbers: empty cells and cells int() rejects are skipped
RECURSIVE CurrentNumbers(_)
CurrentNumbers(dc_numbers) ==
    IF dc_numbers = <<>> THEN <<>>
    ELSE LET dc_str == Head(dc_numbers)
             rest == CurrentNumbers(Tail(dc_numbers))
         IN  IF dc_str # <<>> /\ ParseInt(dc_str).ok
             THEN <<ParseInt(dc_str).value>> \o rest
             ELSE rest

RECURSIVE SeqMax(_)
SeqMax(q) ==
    IF Len(q) = 1 THEN q[1]
    ELSE LET m == SeqMax(Tail(q)) IN IF q[1] >= m THEN q[1] ELSE m

\* mutant: the largest number itself, not its successor
NextNumber_NoIncrement(dc_column) ==
    IF Len(dc_column) > 1 /\ CurrentNumbers(Tail(dc_column)) # <<>>
    THEN SeqMax(CurrentNumbers(Tail(dc_column)))
    ELSE 1

\* mutant: the last number of the column instead of the largest
NextNumber_LastPlusOne(dc_column) ==
    IF Len(dc_column) > 1 /\ CurrentNumbers(Tail(dc_column)) # <<>>
    THEN CurrentNumbers(Tail(dc_column))[Len(CurrentNumbers(Tail(dc_column)))] + 1
    ELSE 1

\* next_number from the cells of column 2 (the first cell is the header)
NextNumber(dc_column) ==
    IF Len(dc_column) > 1
    THEN LET current_numbers == CurrentNumbers(Tail(dc_column))
         IN  IF current_numbers # <<>> THEN SeqMax(current_numbers) + 1 ELSE 1
    ELSE 1

\* did_read = FALSE: opening the workbook, the worksheet or the column raised;
\* hhmm is the wall-clock time of the failure
get_next_dc_number(dc_column, read_ok, hhmm) ==
    IF read_ok
    THEN FormatZeroPadded(NextNumber(dc_column), DcWidth)
    ELSE DcErrorPrefix \o hhmm

----------------------------------------------------------------------------
(* order.py: the SalesOrder aggregate *)

NA == <<"N", "/", "A">>

SalesOrder(customer_name, place, phone, vehicle_details, final_cost_by_staff, sales_staff, financier_name, executive_name, vehicle_color_name, hp_fee_to_charge, incentive_earned, banker_name, dc_number, accessory_bills, bill_1_inv_seq, bill_2_inv_seq) ==
    [customer_name |-> customer_name,
     place |-> place,
     phone |-> phone,
     sales_staff |-> sales_staff,
     banker_name |-> banker_name,
     dc_number |-> dc_number,
     vehicle |-> vehicle_details,
     listed_price |-> vehicle_details.total_price,
     orp_price |-> vehicle_details.orp,
     tax_component |-> vehicle_details.tax,
     final_cost |-> final_cost_by_staff,
     discount |-> vehicle_details.total_price - final_cost_by_staff,
     vehicle_color_name |-> vehicle_color_name,
     sale_type |-> "Cash",
     financier_name |-> financier_name,
     executive_name |-> executive_name,
     incentive_earned |-> incentive_earned,
     hp_fee |-> hp_fee_to_charge,
     dd_amount |-> 0,
     down_payment |-> 0,
     remaining_finance_amount |-> 0,
     accessory_bills |-> accessory_bills,
     bill_1_inv_seq |-> bill_1_inv_seq,
     bill_2_inv_seq |-> bill_2_inv_seq]

\* mutant: the balance is floored at zero, as the form does
set_finance_details_Clamped(self, dd_amount, down_payment) ==
    [self EXCEPT
        !.sale_type = "Finance",
        !.dd_amount = dd_amount,
        !.down_payment = down_payment,
        !.remaining_finance_amount =
            Max(0, (self.final_cost + self.hp_fee + self.incentive_earned)
                       - dd_amount - down_payment)]

\* mutant: the fee is reset with the finance details
set_finance_details_ResetsFee(self, dd_amount, down_payment) ==
    [self EXCEPT
        !.sale_type = "Finance",
        !.hp_fee = 0,
        !.dd_amount = dd_amount,
        !.down_payment = down_payment,
        !.remaining_finance_amount =
            (self.final_cost + self.hp_fee + self.incentive_earned)
                - dd_amount - down_payment]

\* mutant: the amounts are stored, the sale kind is left as it was
set_finance_details_KeepsKind(self, dd_amount, down_payment) ==
    [self EXCEPT
        !.dd_amount = dd_amount,
        !.down_payment = down_payment,
        !.remaining_finance_amount =
            (self.final_cost + self.hp_fee + self.incentive_earned)
                - dd_amount - down_payment]

set_finance_details(self, dd_amount, down_payment) ==
    [self EXCEPT
        !.sale_type = "Finance",
        !.dd_amount = dd_amount,
        !.down_payment = down_payment,
        !.remaining_finance_amount =
            (self.final_cost + self.hp_fee + self.incentive_earned)
                - dd_amount - down_payment]

ExportKeys ==
    <<"Timestamp", "DC_Number", "Sales_Staff", "Financier_Company",
      "Finance_Executive", "Banker_Name", "Sale_Type", "Customer_Name",
      "Phone_Number", "Place", "Model", "Variant", "Paint_Color", "Price_ORP",
      "Price_Listed_Total", "Price_Negotiated_Final", "Discount_Given",
      "Charge_HP_Fee", "Charge_Incentive", "Payment_DD", "Payment_DownPayment",
      "Acc_Inv_1_No", "Acc_Inv_2_No">>

\* the dictionary built by get_data_for_export, as the sequence of its
\* (key, value) pairs in insertion order; today is the IST date string
get_data_for_export(self, bill_1_inv_seq, bill_2_inv_seq, today) ==
    <<  <<"Timestamp", today>>,
        <<"DC_Number", self.dc_number>>,
        <<"Sales_Staff", self.sales_staff>>,
        <<"Financier_Company", self.financier_name>>,
        <<"Finance_Executive", self.executive_name>>,
        <<"Banker_Name", IF self.banker_name # <<>> THEN self.banker_name ELSE <<>> >>,
        <<"Sale_Type", self.sale_type>>,
        <<"Customer_Name", self.customer_name>>,
        <<"Phone_Number", self.phone>>,
        <<"Place", self.place>>,
        <<"Model", self.vehicle.model>>,
        <<"Variant", self.vehicle.color>>,
        <<"Paint_Color", self.vehicle_color_name>>,
        <<"Price_ORP", self.orp_price>>,
        <<"Price_Listed_Total", self.listed_price>>,
        <<"Price_Negotiated_Final", self.final_cost>>,
        <<"Discount_Given", self.discount>>,
        <<"Charge_HP_Fee", self.hp_fee>>,
        <<"Charge_Incentive", self.incentive_earned>>,
        <<"Payment_DD", self.dd_amount>>,
        <<"Payment_DownPayment", self.down_payment>>,
        <<"Acc_Inv_1_No", bill_1_inv_seq>>,
        <<"Acc_Inv_2_No", bill_2_inv_seq>>  >>

\* record_data[key]
Field(record_data, key) ==
    record_data[CHOOSE i \in 1 .. Len(record_data) : record_data[i][1] = key][2]

\* list(record_data.values())
DictValues(record_data) == [i \in 1 .. Len(record_data) |-> record_data[i][2]]

----------------------------------------------------------------------------
(* data_manager.py: the ledger (worksheet Sales_Records) *)

\* mutant: the row is inserted right below the header instead of appended
save_record_to_sheet_InsertTop(rows, record_data, write_ok) ==
    IF write_ok
    THEN <<rows[1], DictValues(record_data)>> \o Tail(rows)
    ELSE rows

\* worksheet.append_row inside try/except: a failure is reported and the
\* sheet stays as it was
save_record_to_sheet(rows, record_data, write_ok) ==
    IF write_ok THEN Append(rows, DictValues(record_data)) ELSE rows

\* worksheet.col_values(n)
col_values(rows, n) == [i \in 1 .. Len(rows) |-> rows[i][n]]

----------------------------------------------------------------------------
(* Inputs of the fee calculator *)

FinancierNames == {Bank, LowerBank, HDFC, TVS, NewCo}
RuleKeys == {Bank, HDFC, TVS}
RuleValues == {[type |-> percentage_dd, value |-> 2],
               [type |-> fixed_file, value |-> 1500 * Scale],
               [type |-> "slab", value |-> 3]}
RuleMappings == UNION {[D -> RuleValues] : D \in SUBSET RuleKeys}
DDAmounts == {k * DDStep : k \in 0 .. MaxDDSteps}

FeeParked ==
    /\ fee_in = [financier_name |-> Bank, dd_amount |-> 0,
                 out_finance_flag |-> FALSE, incentive_rules |-> <<>>]
    /\ fee_out = NoResult

FeeInit ==
    /\ fee_in \in [financier_name : FinancierNames, dd_amount : DDAmounts,
                   out_finance_flag : BOOLEAN, incentive_rules : RuleMappings]
    /\ fee_out = NoResult

CallCalculateFinanceFees ==
    /\ fee_out = NoResult
    /\ fee_out' = calculate_finance_fees(fee_in.financier_name, fee_in.dd_amount,
                                         fee_in.out_finance_flag, fee_in.incentive_rules)
    /\ UNCHANGED <<fee_in, dc_vars, ui_vars, inv_vars, acc_vars, obj_vars, ses_vars>>

FeeNext == CallCalculateFinanceFees

----------------------------------------------------------------------------
(* Submitters: number the document, then append the record *)

Procs == {1, 2}

Clock == {<<"0", "9", "3", "0">>, <<"0", "9", "3", "1">>}

Today == "2025-01-15"

DcHeader == <<"D", "C", "_", "N", "u", "m", "b", "e", "r">>

\* cells found in column 2 of earlier rows: issued numbers and hand edits
HistCells ==
    {<<"0", "0", "0", "3">>, <<"b", "a", "d">>, <<"0", "0", "0", "7">>,
     <<>>, <<"-", "5">>, <<"9", "9", "9", "9", "9">>}

SampleVehicle ==
    [model |-> "Activa", color |-> "STD", total_price |-> 500000 * Scale,
     orp |-> 450000 * Scale, tax |-> 50000 * Scale]

\* a cash order carrying document number dc_number
SampleOrder(dc_number) ==
    SalesOrder(Asha, "Pune", Phone, SampleVehicle, 500000 * Scale, "Staff1",
               NACash, NACash, "Red", 0, 0, Empty, dc_number, <<>>, 0, 0)

HeaderRow ==
    LET keys == get_data_for_export(SampleOrder(NA), 0, 0, Today)
    IN  [i \in 1 .. Len(keys) |->
            IF keys[i][1] = "DC_Number" THEN DcHeader ELSE keys[i][1]]

HistoryRow(cell) == DictValues(get_data_for_export(SampleOrder(cell), 0, 0, Today))

Histories == UNION {[1 .. n -> HistCells] : n \in 0 .. MaxHist}

DcParked ==
    /\ sheet = <<HeaderRow>>
    /\ pc = [p \in Procs |-> "done"]
    /\ dc = [p \in Procs |-> NA]
    /\ seen = [p \in Procs |-> <<>>]
    /\ did_read = [p \in Procs |-> FALSE]
    /\ saved = [p \in Procs |-> FALSE]

DcInit ==
    /\ \E h \in Histories :
          sheet = <<HeaderRow>> \o [i \in 1 .. Len(h) |-> HistoryRow(h[i])]
    /\ pc = [p \in Procs |-> "start"]
    /\ dc = [p \in Procs |-> NA]
    /\ seen = [p \in Procs |-> <<>>]
    /\ did_read = [p \in Procs |-> FALSE]
    /\ saved = [p \in Procs |-> FALSE]

\* get_next_dc_number, called by submitter p
GetNextDcNumber(p) ==
    /\ pc[p] = "start"
    /\ \E ok \in BOOLEAN, hhmm \in Clock :
          /\ dc' = [dc EXCEPT ![p] = get_next_dc_number(col_values(sheet, 2), ok, hhmm)]
          /\ did_read' = [did_read EXCEPT ![p] = ok]
    /\ seen' = [seen EXCEPT ![p] = col_values(sheet, 2)]
    /\ pc' = [pc EXCEPT ![p] = "numbered"]
    /\ UNCHANGED <<sheet, saved, fee_vars, ui_vars, inv_vars, acc_vars, obj_vars, ses_vars>>

\* the order of submitter p is exported and handed to save_record_to_sheet
AppendRecord(p) ==
    /\ pc[p] = "numbered"
    /\ \E write_ok \in BOOLEAN :
          /\ sheet' = save_record_to_sheet(
                          sheet,
                          get_data_for_export(SampleOrder(dc[p]), 0, 0, Today),
                          write_ok)
          /\ saved' = [saved EXCEPT ![p] = write_ok]
    /\ pc' = [pc EXCEPT ![p] = "done"]
    /\ UNCHANGED <<dc, seen, did_read, fee_vars, ui_vars, inv_vars, acc_vars, obj_vars, ses_vars>>

DcNext == \E p \in Procs : GetNextDcNumber(p) \/ AppendRecord(p)

----------------------------------------------------------------------------
(* app.py: the form script, rerun on every interaction *)

NoOrder == [sale_type |-> "none"]

\* rules read from the financiers sheet into INCENTIVE_RULES
INCENTIVE_RULES ==
    (HDFC :> [type |-> percentage_dd, value |-> 2])
        @@ (TVS :> [type |-> fixed_file, value |-> 1500 * Scale])

InitialFinanciers == <<Bank, HDFC, TVS>>

BankerNames == {Empty, Blank, Ravi, Bank, HDFC}
CustomerNames == {Empty, Asha}
PhoneNumbers == {Empty, Phone}
FinalCosts == {50000 * Scale, 500000 * Scale}
NewCompanies == {Empty, NewCo, HDFC}

InSeq(x, q) == \E i \in 1 .. Len(q) : q[i] = x

\* mutant: the required down payment is not floored at zero
AppObligation_NoClamp(final_cost_by_staff, hp_fee_to_charge, incentive_earned, dd_amount) ==
    LET total == final_cost_by_staff + hp_fee_to_charge + incentive_earned
        dp == total - dd_amount
    IN  [total_customer_obligation |-> total,
         down_payment |-> dp,
         financed_amount |-> IF total - (dd_amount + dp) < 0 THEN 0
                             ELSE total - (dd_amount + dp)]

\* total obligation, required down payment and financed amount of a Finance sale
AppObligation(final_cost_by_staff, hp_fee_to_charge, incentive_earned, dd_amount) ==
    LET total_customer_obligation ==
            final_cost_by_staff + hp_fee_to_charge + incentive_earned
        remaining_upfront_needed == total_customer_obligation - dd_amount
        calculated_dp ==
            IF remaining_upfront_needed < 0 THEN 0 ELSE remaining_upfront_needed
        total_paid == dd_amount + calculated_dp
        financed_amount == total_customer_obligation - total_paid
    IN  [total_customer_obligation |-> total_customer_obligation,
         down_payment |-> calculated_dp,
         financed_amount |-> IF financed_amount < 0 THEN 0 ELSE financed_amount]

\* mutant: the Cash defaults keep the default fee
CashLocals_DefaultFee(w) ==
    [sale_type |-> "Cash", financier_name |-> NACash, executive_name |-> NACash,
     dd_amount |-> 0, down_payment |-> 0, hp_fee_to_charge |-> 2000 * Scale,
     incentive_earned |-> 0, banker_name |-> Empty]

\* the values set before the Finance block, which a Cash sale keeps
CashLocals(w) ==
    [sale_type |-> "Cash", financier_name |-> NACash, executive_name |-> NACash,
     dd_amount |-> 0, down_payment |-> 0, hp_fee_to_charge |-> 0,
     incentive_earned |-> 0, banker_name |-> Empty]

\* the Finance block: the banker's name replaces the financier name when
\* "Bank" is selected, then fees and obligation are computed
FinanceLocals(w) ==
    LET banker_name == IF w.financier_sel = Bank THEN w.banker_name ELSE Empty
        financier_name == IF w.financier_sel = Bank THEN banker_name ELSE w.financier_sel
        fees == AppFees(financier_name, w.dd_amount, w.out_finance_flag, INCENTIVE_RULES)
        ob == AppObligation(w.final_cost, fees.hp_fee_to_charge,
                            fees.incentive_earned, w.dd_amount)
    IN  [sale_type |-> "Finance", financier_name |-> financier_name,
         executive_name |-> "Exec1", dd_amount |-> w.dd_amount,
         down_payment |-> ob.down_payment,
         hp_fee_to_charge |-> fees.hp_fee_to_charge,
         incentive_earned |-> fees.incentive_earned,
         banker_name |-> banker_name,
         total_customer_obligation |-> ob.total_customer_obligation,
         financed_amount |-> ob.financed_amount]

ScriptLocals(w) == IF w.sale_type = "Finance" THEN FinanceLocals(w) ELSE CashLocals(w)

\* order = SalesOrder(...) and, for Finance, order.set_finance_details(...)
BuildOrder(w, l) ==
    LET o == SalesOrder(w.name, "Pune", w.phone, SampleVehicle, w.final_cost,
                        "Staff1", l.financier_name, l.executive_name, "Red",
                        l.hp_fee_to_charge, l.incentive_earned, l.banker_name,
                        NA, <<>>, 0, 0)
    IN  IF w.sale_type = "Finance"
        THEN set_finance_details(o, l.dd_amount, l.down_payment)
        ELSE o

\* order.py line 282 formats self.financier_name, always a str, with ",.2f":
\* ValueError, raised before the canvas is saved
generate_pdf_challan(self, filename) == [status |-> "ValueError"]

NoLocals == [sale_type |-> "none"]

NoRun == [status |-> "none"]

DefaultWidgets ==
    [name |-> Empty, phone |-> Empty, sale_type |-> "Cash",
     out_finance_flag |-> FALSE, financier_sel |-> Bank,
     banker_name |-> Empty, dd_amount |-> 0,
     final_cost |-> SampleVehicle.total_price]

NotLoaded == [status |-> "unset"]

\* the loader's None
NoData == [status |-> "None"]

\* the dictionary of data frames, by worksheet name
Sheets(price_list) ==
    [status |-> "data", price_list |-> price_list,
     finance_companies |-> InitialFinanciers]

PriceLists == {<<SampleVehicle>>, <<>>}

\* what the run meets outside: credentials, workbook, worksheets
Environments == [auth_ok : BOOLEAN, open_ok : BOOLEAN, worksheets_ok : BOOLEAN]

\* app.py's loader, when its cache holds no result
app_load_and_cache_all_data(gspread_client, env, price_list) ==
    IF ~gspread_client /\ ~env.auth_ok
    THEN [client |-> FALSE, all_dfs |-> NoData]
    ELSE IF ~env.open_ok \/ ~env.worksheets_ok
    THEN [client |-> TRUE, all_dfs |-> NoData]
    ELSE [client |-> TRUE, all_dfs |-> Sheets(price_list)]

initialize_all_data(dfs) ==
    IF dfs.status = "None"
    THEN [vehicles |-> <<>>, color_map |-> <<>>, processed |-> FALSE]
    ELSE [vehicles |-> dfs.price_list, color_map |-> <<>>, processed |-> TRUE]

\* mutant: the form is drawn whatever was loaded
FormEnabled_Always(vehicles) == TRUE

\* "if not vehicles: ... return" ends the run before any widget is drawn
FormEnabled(vehicles) == vehicles # <<>>

\* the last run drew the form
FormShown ==
    /\ all_dfs # NotLoaded
    /\ FormEnabled(initialize_all_data(all_dfs).vehicles)

DictGet(d, key, default) == IF key \in DOMAIN d THEN d[key] ELSE default

EmptyAppData ==
    [vehicles |-> <<>>, color_map |-> <<>>, incentive_rules |-> <<>>,
     firm_master_df |-> EmptyFrame, accessory_bom_df |-> EmptyFrame,
     sales_records_df |-> EmptyFrame, initial_staff |-> <<>>,
     initial_executives |-> <<>>, initial_financiers |-> <<>>]

\* config.py: the nine items made of the loader's result
initialize_app_data(dfs) ==
    IF dfs.status = "None" THEN EmptyAppData
    ELSE [vehicles |-> DictGet(dfs, "Price_List", <<>>),
          color_map |-> <<>>,
          incentive_rules |-> INCENTIVE_RULES,
          firm_master_df |-> DictGet(dfs, "Firm_Master", EmptyFrame),
          accessory_bom_df |-> DictGet(dfs, "Accessory_BOM", EmptyFrame),
          sales_records_df |-> DictGet(dfs, "Sales_Records", EmptyFrame),
          initial_staff |-> <<"Staff1">>,
          initial_executives |-> <<"Exec1">>,
          initial_financiers |-> DictGet(dfs, "Financiers", <<>>)]

\* before the first run: no session state, nothing loaded
UiParked ==
    /\ widgets = DefaultWidgets
    /\ financiers = <<>>
    /\ ui = NoLocals
    /\ order = NoOrder
    /\ outcome = "unstarted"
    /\ client = FALSE
    /\ all_dfs = NotLoaded
    /\ ledger = <<HeaderRow>>
    /\ run = NoRun

UiInit == UiParked

\* the script runs to its end without the submit button pressed
Rerun(w, fin) ==
    /\ FormShown
    /\ widgets' = w
    /\ financiers' = fin
    /\ ui' = ScriptLocals(w)
    /\ order' = NoOrder
    /\ outcome' = "form"
    /\ run' = NoRun
    /\ UNCHANGED <<client, all_dfs, ledger, fee_vars, dc_vars, inv_vars, acc_vars, obj_vars, ses_vars>>

TypeCustomer ==
    \E n \in CustomerNames, ph \in PhoneNumbers :
        Rerun([widgets EXCEPT !.name = n, !.phone = ph], financiers)

SetFinalCost ==
    \E c \in FinalCosts : Rerun([widgets EXCEPT !.final_cost = c], financiers)

SetSaleType ==
    \E t \in {"Cash", "Finance"} : Rerun([widgets EXCEPT !.sale_type = t], financiers)

SetOutFinance ==
    /\ widgets.sale_type = "Finance"
    /\ \E b \in BOOLEAN : Rerun([widgets EXCEPT !.out_finance_flag = b], financiers)

SelectFinancier ==
    /\ widgets.sale_type = "Finance"
    /\ \E i \in 1 .. Len(financiers) :
          Rerun([widgets EXCEPT !.financier_sel = financiers[i]], financiers)

\* "Add Company": a new non-empty name is appended to the session list
AddCompany ==
    /\ widgets.sale_type = "Finance"
    /\ \E n \in NewCompanies :
          IF n # Empty /\ ~InSeq(n, financiers)
          THEN Rerun(widgets, Append(financiers, n))
          ELSE Rerun(widgets, financiers)

TypeBanker ==
    /\ widgets.sale_type = "Finance"
    /\ widgets.financier_sel = Bank
    /\ \E b \in BankerNames : Rerun([widgets EXCEPT !.banker_name = b], financiers)

SetBooking ==
    /\ widgets.sale_type = "Finance"
    /\ \E d \in DDAmounts : Rerun([widgets EXCEPT !.dd_amount = d], financiers)

\* order.get_data_for_export() is called without its two required arguments
AppExportCall(o) == [status |-> "TypeError"]

RunOf(ledger_ok, appended, save_error, render_attempted, offered) ==
    [status |-> "submitted", ledger_ok |-> ledger_ok, appended |-> appended,
     save_error |-> save_error, render_attempted |-> render_attempted,
     offered |-> offered]

\* "Generate and Download DC PDF"; ledger_ok tells whether the worksheet
\* takes an append during this run
ClickGenerate ==
    /\ FormShown
    /\ \E ledger_ok \in BOOLEAN :
          LET l == ScriptLocals(widgets)
              o == BuildOrder(widgets, l)
              export == AppExportCall(o)
              pdf == generate_pdf_challan(o, "DC.pdf")
              stopped == RunOf(ledger_ok, FALSE, FALSE, FALSE, FALSE)
          IN  /\ ui' = l
              /\ IF widgets.name = Empty \/ widgets.phone = Empty
                 THEN /\ order' = NoOrder /\ outcome' = "error_customer"
                      /\ ledger' = ledger /\ run' = stopped
                 ELSE IF l.financier_name = Bank /\ Strip(l.banker_name) = Empty
                 THEN /\ order' = NoOrder /\ outcome' = "error_banker"
                      /\ ledger' = ledger /\ run' = stopped
                 ELSE IF export.status # "return"
                 THEN /\ order' = o /\ outcome' = export.status
                      /\ ledger' = ledger /\ run' = stopped
                 ELSE /\ order' = o
                      /\ ledger' = IF ledger_ok
                                   THEN Append(ledger, DictValues(export.record_data))
                                   ELSE ledger
                      /\ run' = RunOf(ledger_ok, ledger_ok, ~ledger_ok, TRUE,
                                      pdf.status = "return")
                      /\ outcome' = IF pdf.status = "return" THEN "offered"
                                    ELSE "error_pdf"
    /\ UNCHANGED <<widgets, financiers, client, all_dfs, fee_vars, dc_vars, inv_vars, acc_vars, obj_vars, ses_vars>>

\* a run in which the loader's body executes: the first one, or one after the
\* cached result has expired
LoadData ==
    /\ \E env \in Environments, price_list \in PriceLists :
          LET loaded == app_load_and_cache_all_data(client, env, price_list)
              init == initialize_all_data(loaded.all_dfs)
          IN  /\ client' = loaded.client
              /\ all_dfs' = loaded.all_dfs
              /\ financiers' = IF init.processed /\ financiers = <<>>
                               THEN loaded.all_dfs.finance_companies
                               ELSE financiers
              /\ IF FormEnabled(init.vehicles)
                 THEN /\ widgets' = widgets
                      /\ ui' = ScriptLocals(widgets)
                      /\ outcome' = "form"
                 ELSE /\ widgets' = DefaultWidgets
                      /\ ui' = NoLocals
                      /\ outcome' = "setup_failed"
              /\ run' = [status |-> "loaded", env |-> env, had_client |-> client]
    /\ order' = NoOrder
    /\ UNCHANGED <<ledger, fee_vars, dc_vars, inv_vars, acc_vars, obj_vars, ses_vars>>

UiNext ==
    \/ LoadData
    \/ TypeCustomer
    \/ SetFinalCost
    \/ SetSaleType
    \/ SetOutFinance
    \/ SelectFinancier
    \/ AddCompany
    \/ TypeBanker
    \/ SetBooking
    \/ ClickGenerate

----------------------------------------------------------------------------
(* finance_helper.py: accessory invoice numbers *)

IsAllDigits(s) == \A i \in 1 .. Len(s) : IsDigit(s[i])

\* position of the first ".", 0 when there is none
DotAt(s) ==
    IF \E i \in 1 .. Len(s) : s[i] = "."
    THEN CHOOSE i \in 1 .. Len(s) : s[i] = "." /\ \A j \in 1 .. i - 1 : s[j] # "."
    ELSE 0

\* float(text) for decimal literals, on two-decimal fixed point:
\* "number" with its value, "nan", or "error" for ValueError
ParseFloat(text) ==
    LET t == Strip(text)
        signed == t # <<>> /\ Head(t) \in {"+", "-"}
        body == IF signed THEN Tail(t) ELSE t
        d == DotAt(body)
        whole == IF d = 0 THEN body ELSE SubSeq(body, 1, d - 1)
        frac == IF d = 0 THEN <<>> ELSE SubSeq(body, d + 1, Len(body))
        cents == DigitBodyValue(SubSeq(frac \o <<"0", "0">>, 1, 2), 0)
        magnitude == DigitBodyValue(whole, 0) * Scale + cents
    IN  IF body = <<"n", "a", "n">> THEN [kind |-> "nan"]
        ELSE IF IsAllDigits(whole) /\ IsAllDigits(frac) /\ Len(whole) + Len(frac) >= 1
        THEN [kind |-> "number",
              value |-> IF signed /\ Head(t) = "-" THEN 0 - magnitude ELSE magnitude]
        ELSE [kind |-> "error"]

INVOICE_PREFIXES == (1 :> <<"K", "M">>) @@ (2 :> <<"V", "A">>)

GST_RATE_CALC == 0

Acc_Inv_1_No == "Acc_Inv_1_No"
Acc_Inv_2_No == "Acc_Inv_2_No"

\* pd.to_numeric(column, errors='coerce') without its NaN entries
NumericValues(column) ==
    {ParseFloat(column[i]).value :
        i \in {j \in 1 .. Len(column) : ParseFloat(column[j]).kind = "number"}}

ColumnMax(values) == CHOOSE m \in values : \A v \in values : v <= m

\* mutant: both firms read the first firm's column
InvoiceColumn_Shared(firm_id) == Acc_Inv_1_No

InvoiceColumn(firm_id) == IF firm_id = 1 THEN Acc_Inv_1_No ELSE Acc_Inv_2_No

StartSeq(firm_id) == IF firm_id = 1 THEN 1000 ELSE 2000

\* a data frame is a function from its column names to their cells
get_max_accessory_invoice_number(df_sales_records, firm_id) ==
    IF firm_id \notin {1, 2} THEN 0
    ELSE LET inv_col == InvoiceColumn(firm_id)
             start_seq == StartSeq(firm_id)
         IN  IF inv_col \notin DOMAIN df_sales_records THEN start_seq
             ELSE LET values == NumericValues(df_sales_records[inv_col])
                  IN  IF values # {} /\ ColumnMax(values) >= start_seq * Scale
                      THEN ColumnMax(values) \div Scale
                      ELSE start_seq

generate_accessory_invoice_number(df_sales_records, firm_id) ==
    LET max_inv_no == get_max_accessory_invoice_number(df_sales_records, firm_id)
        prefix == IF firm_id \in DOMAIN INVOICE_PREFIXES
                  THEN INVOICE_PREFIXES[firm_id] ELSE <<"U", "N", "K">>
        sequential_part == max_inv_no + 1
    IN  [prefixed |-> prefix \o <<"-">> \o DecDigits(sequential_part),
         seq |-> sequential_part]

----------------------------------------------------------------------------
(* finance_helper.py: accessory bills *)

\* acc_price > 0, where acc_price is 0.0 after ValueError and nan > 0 is False
IsBilledPrice(parsed) == parsed.kind = "number" /\ parsed.value > 0

\* mutant: slot 5 goes to the first firm
FirmOfSlot_UpToFive(i) == IF i <= 5 THEN 1 ELSE 2

FirmOfSlot(i) == IF i <= 4 THEN 1 ELSE 2

\* the dictionary built for slot i of the row, <<>> when the slot is skipped
AccessoryData(package_row, i) ==
    LET acc_name_series == package_row.slots[i].name
        parsed == ParseFloat(package_row.slots[i].price)
    IN  IF Strip(acc_name_series) = Empty THEN <<>>
        ELSE IF IsBilledPrice(parsed)
        THEN <<[name |-> Strip(acc_name_series), qty |-> 1,
                price |-> parsed.value, total |-> 1 * parsed.value]>>
        ELSE <<>>

\* the accessories list of one firm after the loop over slots i .. 10
RECURSIVE AccessoriesList(_, _, _)
AccessoriesList(package_row, firm_id, i) ==
    IF i > 10 THEN <<>>
    ELSE (IF FirmOfSlot(i) = firm_id THEN AccessoryData(package_row, i) ELSE <<>>)
         \o AccessoriesList(package_row, firm_id, i + 1)

\* mutant: only the first line counts
SumTotals_First(accessories) ==
    IF accessories = <<>> THEN 0 ELSE Head(accessories).total

\* the subtotal a firm's list has accumulated
RECURSIVE SumTotals(_)
SumTotals(accessories) ==
    IF accessories = <<>> THEN 0
    ELSE Head(accessories).total + SumTotals(Tail(accessories))

FirmDetails(firm_master_df, firm_key) ==
    Head(SelectSeq(firm_master_df, LAMBDA r : r.Firm_ID = firm_key))

\* mutant: the bill is appended whatever its grand total
HasBill_Always(grand_total) == TRUE

HasBill(grand_total) == grand_total > 0

\* the bill of one firm as appended to bills_to_print, <<>> when it has none
BillOf(firm_id, firm_key, accessories, firm_master_df) ==
    LET subtotal == SumTotals(accessories)
        tax_amount == FMul(subtotal, GST_RATE_CALC)
        grand_total == subtotal + tax_amount
    IN  IF HasBill(grand_total)
        THEN <<[firm_id |-> firm_id,
                firm_details |-> FirmDetails(firm_master_df, firm_key),
                accessories |-> accessories,
                subtotal |-> subtotal,
                tax |-> tax_amount,
                grand_total |-> grand_total]>>
        ELSE <<>>

\* accessory_bom_df: the rows of a table that has the Model_ID column;
\* firm_master_df: the rows of a table that holds both firms
process_accessories_and_split(model_id, accessory_bom_df, firm_master_df) ==
    LET rows == SelectSeq(accessory_bom_df, LAMBDA r : r.Model_ID = Strip(model_id))
    IN  IF rows = <<>> THEN <<>>
        ELSE BillOf(1, "1", AccessoriesList(Head(rows), 1, 1), firm_master_df)
             \o BillOf(2, "2", AccessoriesList(Head(rows), 2, 1), firm_master_df)

\* every bill gets its Invoice_No and Acc_Inv_Seq; the frame is only read
generate_accessory_bills(model_id, accessory_bom_df, firm_master_df, sales_records_df) ==
    LET bills_to_print ==
            process_accessories_and_split(model_id, accessory_bom_df, firm_master_df)
        Numbered(bill) ==
            LET no == generate_accessory_invoice_number(sales_records_df, bill.firm_id)
            IN  [firm_id |-> bill.firm_id,
                 firm_details |-> bill.firm_details,
                 accessories |-> bill.accessories,
                 subtotal |-> bill.subtotal,
                 tax |-> bill.tax,
                 grand_total |-> bill.grand_total,
                 Invoice_No |-> no.prefixed,
                 Acc_Inv_Seq |-> no.seq]
    IN  [i \in 1 .. Len(bills_to_print) |-> Numbered(bills_to_print[i])]

----------------------------------------------------------------------------
(* Inputs of the accessory functions *)

C1005 == <<"1", "0", "0", "5">>
C2500 == <<" ", "2", "5", "0", "0">>
CZero == <<"0">>
CBad == <<"b", "a", "d">>

\* cells of the two invoice columns: numbers the export wrote, the 0 it writes
\* for a sale without that bill, an emptied cell and a hand-typed word
InvCells == {C1005, C2500, CZero, Empty, CBad}

SalesFrame(records) ==
    (Acc_Inv_1_No :> [i \in 1 .. Len(records) |-> records[i][1]])
    @@ (Acc_Inv_2_No :> [i \in 1 .. Len(records) |-> records[i][2]])

SalesFrames ==
    {EmptyFrame} \cup
    {SalesFrame(records) :
        records \in UNION {[1 .. n -> InvCells \X InvCells] : n \in 1 .. MaxAccRows}}

InvParked == inv_in = EmptyFrame /\ inv_out = NoResult

InvInit == inv_in \in SalesFrames /\ inv_out = NoResult

CallGenerateAccessoryInvoiceNumber ==
    /\ inv_out = NoResult
    /\ \E firm_id \in {1, 2, 3} :
          inv_out' = [status |-> "return", firm_id |-> firm_id,
                      result |-> generate_accessory_invoice_number(inv_in, firm_id)]
    /\ UNCHANGED <<inv_in, fee_vars, dc_vars, ui_vars, acc_vars, obj_vars, ses_vars>>

InvNext == CallGenerateAccessoryInvoiceNumber

A1 == <<"A", "1">>
PaddedA1 == <<" ", "A", "1", " ">>
B2 == <<"B", "2">>
Z9 == <<"Z", "9">>
Helmet == <<"H", "e", "l", "m">>
Guard == <<" ", "G", "r", "d">>
Mat == <<"M", "a", "t">>
P250 == <<"2", "5", "0">>
P9950 == <<" ", "9", "9", ".", "5", "0">>
PMinus50 == <<"-", "5", "0">>
PWord == <<"a", "b", "c">>
PNan == <<"n", "a", "n">>

EmptySlot == [name |-> Empty, price |-> Empty]

\* a filled-in slot that is billed
SlotOptions == {[name |-> Helmet, price |-> P250], [name |-> Guard, price |-> P9950]}

\* rows with at most MaxFilled filled-in slots
SparseRows ==
    {[i \in 1 .. 10 |-> IF i \in DOMAIN f THEN f[i] ELSE EmptySlot] :
        f \in UNION {[S -> SlotOptions] :
                        S \in {T \in SUBSET (1 .. 10) : Cardinality(T) <= MaxFilled}}}

\* a filled-in slot that is not billed: no positive price, or no name
UnbilledOptions ==
    {[name |-> Mat, price |-> p] : p \in {CZero, PMinus50, PWord, PNan, Empty}}
    \cup {[name |-> n, price |-> P250] : n \in {Blank, Empty}}

\* rows with such a slot on either side of the split
UnbilledRows ==
    {[i \in 1 .. 10 |-> IF i \in {4, 5} THEN u
                        ELSE IF i = 10 THEN [name |-> Helmet, price |-> q]
                        ELSE EmptySlot] :
        u \in UnbilledOptions, q \in {P250, CZero}}

FirmMaster ==
    <<[Firm_ID |-> "1", Firm_Name |-> "KM"], [Firm_ID |-> "2", Firm_Name |-> "VA"]>>

OtherRow ==
    [Model_ID |-> B2,
     slots |-> [i \in 1 .. 10 |-> IF i = 7 THEN [name |-> Mat, price |-> P250]
                                  ELSE EmptySlot]]

ModelIds == {PaddedA1, B2, Z9}

AccParked == acc_in = [status |-> "none"] /\ acc_out = NoResult

AccInit ==
    /\ \E slots \in SparseRows \cup UnbilledRows :
          acc_in = [accessory_bom_df |-> <<[Model_ID |-> A1, slots |-> slots], OtherRow>>,
                    firm_master_df |-> FirmMaster,
                    sales_records_df |-> SalesFrame(<<<<C1005, CBad>>, <<CZero, C2500>>>>)]
    /\ acc_out = NoResult

CallProcessAccessoriesAndSplit ==
    /\ acc_out = NoResult
    /\ \E model_id \in ModelIds :
          acc_out' = [status |-> "return", model_id |-> model_id, numbered |-> FALSE,
                      bills |-> process_accessories_and_split(
                                    model_id, acc_in.accessory_bom_df, acc_in.firm_master_df)]
    /\ UNCHANGED <<acc_in, fee_vars, dc_vars, ui_vars, inv_vars, obj_vars, ses_vars>>

CallGenerateAccessoryBills ==
    /\ acc_out = NoResult
    /\ \E model_id \in ModelIds :
          acc_out' = [status |-> "return", model_id |-> model_id, numbered |-> TRUE,
                      bills |-> generate_accessory_bills(
                                    model_id, acc_in.accessory_bom_df, acc_in.firm_master_df,
                                    acc_in.sales_records_df)]
    /\ UNCHANGED <<acc_in, fee_vars, dc_vars, ui_vars, inv_vars, obj_vars, ses_vars>>

AccNext == CallProcessAccessoriesAndSplit \/ CallGenerateAccessoryBills

----------------------------------------------------------------------------
(* order.py: the life of one SalesOrder object *)

ObjParked == obj = NoOrder /\ obj_op = "none"

ObjInit == ObjParked

DownPayments == {0, 402000 * Scale, 600000 * Scale}

\* SalesOrder(...), with the arguments the form passes
Construct ==
    /\ obj = NoOrder
    /\ \E final_cost \in FinalCosts, financier_name \in {NACash, HDFC, Ravi},
          hp_fee \in {0, HP_FEE_DEFAULT}, incentive \in {0, 1500 * Scale},
          banker_name \in {Empty, Ravi} :
          obj' = SalesOrder(Asha, "Pune", Phone, SampleVehicle, final_cost, "Staff1",
                            financier_name, "Exec1", "Red", hp_fee, incentive,
                            banker_name, NA, <<>>, 0, 0)
    /\ obj_op' = "__init__"
    /\ UNCHANGED <<fee_vars, dc_vars, ui_vars, inv_vars, acc_vars, ses_vars>>

SetFinanceDetails ==
    /\ obj # NoOrder
    /\ \E dd_amount \in DDAmounts, down_payment \in DownPayments :
          obj' = set_finance_details(obj, dd_amount, down_payment)
    /\ obj_op' = "set_finance_details"
    /\ UNCHANGED <<fee_vars, dc_vars, ui_vars, inv_vars, acc_vars, ses_vars>>

\* the export reads the object and returns a new dictionary
GetDataForExport ==
    /\ obj # NoOrder
    /\ \E bill_1_inv_seq \in {0, 1001}, bill_2_inv_seq \in {0, 2001} :
          get_data_for_export(obj, bill_1_inv_seq, bill_2_inv_seq, Today) # <<>>
    /\ obj_op' = "get_data_for_export"
    /\ UNCHANGED <<obj, fee_vars, dc_vars, ui_vars, inv_vars, acc_vars, ses_vars>>

\* the renderer reads the object and raises at line 282
GeneratePdfChallan ==
    /\ obj # NoOrder
    /\ generate_pdf_challan(obj, "DC.pdf").status = "ValueError"
    /\ obj_op' = "generate_pdf_challan"
    /\ UNCHANGED <<obj, fee_vars, dc_vars, ui_vars, inv_vars, acc_vars, ses_vars>>

ObjNext == Construct \/ SetFinanceDetails \/ GetDataForExport \/ GeneratePdfChallan

----------------------------------------------------------------------------
(* data_manager.py and config.py: the cached loaders of one server process *)

\* a cache that holds no unexpired result for the call
NoEntry == [status |-> "none"]

Entry(value) == [status |-> "entry", value |-> value]

NoCall == [status |-> "none"]

WorksheetNames ==
    {"Sales_Staff", "Finance_Executives", "Financiers", "Price_List", "Colors",
     "Sales_Records"}

\* the keys config.initialize_app_data looks up in the loader's dictionary
TablesRead ==
    {"Sales_Staff", "Finance_Executives", "Financiers", "Price_List", "Colors",
     "Accessory_BOM", "Firm_Master", "Sales_Records"}

RemoveCommas(s) == SelectSeq(s, LAMBDA c : c # ",")

\* .str.replace(',', '', regex=False).str.strip()
CleanCell(s) == Strip(RemoveCommas(s))

\* pd.DataFrame(data[1:], columns=data[0]) with every cell cleaned, and
\* pd.DataFrame() when no row follows the header
DataFrame(data) ==
    IF data # <<>> /\ Len(data) > 1
    THEN [c \in {data[1][i] : i \in 1 .. Len(data[1])} |->
            LET i == CHOOSE j \in 1 .. Len(data[1]) : data[1][j] = c
            IN  [r \in 1 .. Len(data) - 1 |-> CleanCell(data[r + 1][i])]]
    ELSE EmptyFrame

\* the reference tables of the workbook, as the tables made of them
ReferenceTable(name) ==
    CASE name = "Price_List" -> <<SampleVehicle>>
      [] name = "Financiers" -> InitialFinanciers
      [] name = "Sales_Staff" -> <<"Staff1">>
      [] name = "Finance_Executives" -> <<"Exec1">>
      [] OTHER -> <<>>

\* the body of data_manager.load_and_cache_all_data: everything after the
\* authentication sits inside "if GSPREAD_CLIENT is None", so a call that
\* finds the client set falls off the end of the function and returns None;
\* opening the workbook is outside every try
load_and_cache_all_data(gspread_client, env, data) ==
    IF gspread_client
    THEN [client |-> TRUE, status |-> "return", value |-> NoData]
    ELSE IF ~env.auth_ok
    THEN [client |-> FALSE, status |-> "return", value |-> NoData]
    ELSE IF ~env.open_ok
    THEN [client |-> TRUE, status |-> "SpreadsheetNotFound", value |-> NoData]
    ELSE IF ~env.worksheets_ok
    THEN [client |-> TRUE, status |-> "return", value |-> NoData]
    ELSE [client |-> TRUE, status |-> "return",
          value |-> [n \in WorksheetNames \cup {"status"} |->
                        IF n = "status" THEN "data"
                        ELSE IF n = "Sales_Records" THEN DataFrame(data)
                        ELSE ReferenceTable(n)]]

\* the function as its callers reach it, through @st.cache(ttl=3600): a stored
\* result is returned without running the body, a returned value is stored,
\* an exception is not
CachedLoad(loader_entry, gspread_client, env, data) ==
    IF loader_entry # NoEntry
    THEN [client |-> gspread_client, status |-> "return",
          value |-> loader_entry.value, entry |-> loader_entry, executed |-> FALSE]
    ELSE LET r == load_and_cache_all_data(gspread_client, env, data)
         IN  [client |-> r.client, status |-> r.status, value |-> r.value,
              entry |-> IF r.status = "return" THEN Entry(r.value) ELSE NoEntry,
              executed |-> TRUE]

\* config.initialize_app_data through @st.cache_data(ttl=3600)
CachedInitializeAppData(app_entry, loader_entry, gspread_client, env, data) ==
    IF app_entry # NoEntry
    THEN [client |-> gspread_client, status |-> "return", value |-> app_entry.value,
          app_entry |-> app_entry, loader_entry |-> loader_entry, hit |-> TRUE]
    ELSE LET l == CachedLoad(loader_entry, gspread_client, env, data)
         IN  IF l.status # "return"
             THEN [client |-> l.client, status |-> l.status, value |-> EmptyAppData,
                   app_entry |-> NoEntry, loader_entry |-> l.entry, hit |-> FALSE]
             ELSE [client |-> l.client, status |-> "return",
                   value |-> initialize_app_data(l.value),
                   app_entry |-> Entry(initialize_app_data(l.value)),
                   loader_entry |-> l.entry, hit |-> FALSE]

\* save_record_to_sheet with its module-level client: the authentication of
\* lines 70-71 runs outside the try
SaveWithClient(gspread_client, rows, record_data, auth_ok, write_ok) ==
    IF ~gspread_client /\ ~auth_ok
    THEN [client |-> FALSE, status |-> "raised", rows |-> rows]
    ELSE [client |-> TRUE, status |-> "return",
          rows |-> save_record_to_sheet(rows, record_data, write_ok)]

----------------------------------------------------------------------------
(* One session: direct calls of the loader and of the save, and submissions *)

C1Comma5 == <<"1", ",", "0", "0", "5">>

SalesHeader == <<Acc_Inv_1_No, Acc_Inv_2_No>>

\* the ledger at the start of the session
InitialRecords ==
    {<<SalesHeader>>,
     <<SalesHeader, <<C1Comma5, CBad>>>>,
     <<SalesHeader, <<C1005, C2500>>, <<CZero, Empty>>>>}

\* the accessory table of the workbook: model A1 bills both firms, B2 the second
SessionBom ==
    <<[Model_ID |-> A1,
       slots |-> [i \in 1 .. 10 |->
                    IF i = 1 THEN [name |-> Helmet, price |-> P250]
                    ELSE IF i = 5 THEN [name |-> Guard, price |-> P9950]
                    ELSE EmptySlot]],
      OtherRow>>

\* the sequence number of the firm's bill, 0 when the sale has no such bill
SeqOfFirm(bills, firm_id) ==
    LET own == SelectSeq(bills, LAMBDA b : b.firm_id = firm_id)
    IN  IF own = <<>> THEN 0 ELSE Head(own).Acc_Inv_Seq

\* the two invoice cells of the exported record, as the worksheet shows them
InvoiceCells(record_data) ==
    << <<Acc_Inv_1_No, DecDigits(Field(record_data, Acc_Inv_1_No))>>,
       <<Acc_Inv_2_No, DecDigits(Field(record_data, Acc_Inv_2_No))>> >>

SesParked ==
    /\ GSPREAD_CLIENT = FALSE
    /\ loader_cache = NoEntry
    /\ app_data_cache = NoEntry
    /\ sales_records = <<SalesHeader>>
    /\ last_call = NoCall
    /\ subs = <<>>

\* a fresh server process: the module is imported, nothing is cached
SesInit ==
    /\ GSPREAD_CLIENT = FALSE
    /\ loader_cache = NoEntry
    /\ app_data_cache = NoEntry
    /\ sales_records \in InitialRecords
    /\ last_call = NoCall
    /\ subs = <<>>

CallLoadAndCacheAllData ==
    /\ \E env \in Environments :
          LET l == CachedLoad(loader_cache, GSPREAD_CLIENT, env, sales_records)
          IN  /\ GSPREAD_CLIENT' = l.client
              /\ loader_cache' = l.entry
              /\ last_call' = [status |-> l.status, value |-> l.value,
                               executed |-> l.executed,
                               had_client |-> GSPREAD_CLIENT,
                               auth_ok |-> GSPREAD_CLIENT \/ env.auth_ok,
                               worksheets_ok |-> env.open_ok /\ env.worksheets_ok]
    /\ UNCHANGED <<app_data_cache, sales_records, subs>>
    /\ UNCHANGED <<fee_vars, dc_vars, ui_vars, inv_vars, acc_vars, obj_vars>>

CallSaveRecordToSheet ==
    /\ Len(sales_records) <= MaxSubmissions
    /\ \E auth_ok \in BOOLEAN, write_ok \in BOOLEAN :
          LET record_data == get_data_for_export(SampleOrder(NA), 0, 0, Today)
              s == SaveWithClient(GSPREAD_CLIENT, sales_records,
                                  InvoiceCells(record_data), auth_ok, write_ok)
          IN  /\ GSPREAD_CLIENT' = s.client
              /\ sales_records' = s.rows
    /\ UNCHANGED <<loader_cache, app_data_cache, last_call, subs>>
    /\ UNCHANGED <<fee_vars, dc_vars, ui_vars, inv_vars, acc_vars, obj_vars>>

\* one run of the page that ends in a submission: the nine items come from
\* initialize_app_data, the form is drawn only when there are vehicles, the
\* bills are numbered from the sales-records frame of the nine items, the
\* record is exported with the two sequence numbers and appended
Submit ==
    /\ Len(subs) < MaxSubmissions
    /\ \E model_id \in {A1, B2}, env \in Environments, write_ok \in BOOLEAN :
       \E init \in {CachedInitializeAppData(app_data_cache, loader_cache,
                                            GSPREAD_CLIENT, env, sales_records)} :
          /\ loader_cache' = init.loader_entry
          /\ app_data_cache' = init.app_entry
          /\ IF init.status = "return" /\ FormEnabled(init.value.vehicles)
             THEN \E bills \in {generate_accessory_bills(
                                    model_id, SessionBom, FirmMaster,
                                    init.value.sales_records_df)} :
                  \E record_data \in {get_data_for_export(
                                          SampleOrder(NA), SeqOfFirm(bills, 1),
                                          SeqOfFirm(bills, 2), Today)} :
                  \E s \in {SaveWithClient(init.client, sales_records,
                                           InvoiceCells(record_data),
                                           env.auth_ok, write_ok)} :
                     /\ GSPREAD_CLIENT' = s.client
                     /\ sales_records' = s.rows
                     /\ subs' = Append(subs,
                           [model_id |-> model_id,
                            bills |-> [i \in 1 .. Len(bills) |->
                                         [firm_id |-> bills[i].firm_id,
                                          Invoice_No |-> bills[i].Invoice_No,
                                          Acc_Inv_Seq |-> bills[i].Acc_Inv_Seq]],
                            cached |-> init.hit,
                            saved |-> s.status = "return" /\ write_ok])
             ELSE /\ GSPREAD_CLIENT' = init.client
                  /\ UNCHANGED <<sales_records, subs>>
    /\ UNCHANGED last_call
    /\ UNCHANGED <<fee_vars, dc_vars, ui_vars, inv_vars, acc_vars, obj_vars>>

\* an hour has passed since the loader's result was stored
ExpireLoaderCache ==
    /\ loader_cache # NoEntry
    /\ loader_cache' = NoEntry
    /\ UNCHANGED <<GSPREAD_CLIENT, app_data_cache, sales_records, last_call, subs>>
    /\ UNCHANGED <<fee_vars, dc_vars, ui_vars, inv_vars, acc_vars, obj_vars>>

\* an hour has passed since the nine items were stored
ExpireAppDataCache ==
    /\ app_data_cache # NoEntry
    /\ app_data_cache' = NoEntry
    /\ UNCHANGED <<GSPREAD_CLIENT, loader_cache, sales_records, last_call, subs>>
    /\ UNCHANGED <<fee_vars, dc_vars, ui_vars, inv_vars, acc_vars, obj_vars>>

SesNext ==
    \/ CallLoadAndCacheAllData
    \/ CallSaveRecordToSheet
    \/ Submit
    \/ ExpireLoaderCache
    \/ ExpireAppDataCache

----------------------------------------------------------------------------
(* Specifications *)

InitFee == FeeInit /\ DcParked /\ UiParked /\ InvParked /\ AccParked /\ ObjParked /\ SesParked

SpecFee == InitFee /\ [][FeeNext]_vars

InitDc == DcInit /\ FeeParked /\ UiParked /\ InvParked /\ AccParked /\ ObjParked /\ SesParked

SpecDc == InitDc /\ [][DcNext]_vars

InitUi == UiInit /\ FeeParked /\ DcParked /\ InvParked /\ AccParked /\ ObjParked /\ SesParked

SpecUi == InitUi /\ [][UiNext]_vars

InitInv == InvInit /\ FeeParked /\ DcParked /\ UiParked /\ AccParked /\ ObjParked /\ SesParked

SpecInv == InitInv /\ [][InvNext]_vars

InitAcc == AccInit /\ FeeParked /\ DcParked /\ UiParked /\ InvParked /\ ObjParked /\ SesParked

SpecAcc == InitAcc /\ [][AccNext]_vars

InitObj == ObjInit /\ FeeParked /\ DcParked /\ UiParked /\ InvParked /\ AccParked /\ SesParked

SpecObj == InitObj /\ [][ObjNext]_vars

InitSes ==
    SesInit /\ FeeParked /\ DcParked /\ UiParked /\ InvParked /\ AccParked /\ ObjParked

SpecSes == InitSes /\ [][SesNext]_vars

----------------------------------------------------------------------------
(* Claims about the fee calculator, under SpecFee *)

FeeReturned == fee_out # NoResult

\* C1: with the external-financing flag false and the financier name exactly
\* "Bank", calculate_finance_fees returns fee 500 and incentive 0, for every
\* booking amount and every rule mapping (also one with a rule keyed "Bank").
C1_BankQuotationFee ==
    (FeeReturned /\ ~fee_in.out_finance_flag /\ fee_in.financier_name = Bank)
        => /\ fee_out.status = "return"
           /\ fee_out.hp_fee_to_charge = 500 * Scale
           /\ fee_out.incentive_earned = 0

C1_Witness ==
    /\ FeeReturned
    /\ ~fee_in.out_finance_flag
    /\ fee_in.financier_name = Bank
    /\ Bank \in DOMAIN fee_in.incentive_rules
    /\ fee_in.incentive_rules[Bank].type = percentage_dd
    /\ fee_in.dd_amount > 0
    /\ fee_out.hp_fee_to_charge = 500 * Scale

\* C2: with the external-financing flag true the result is fee 2000 and
\* incentive 0 for every financier name and booking amount; the flag branch
\* wins over the "Bank" branch and over the rule branch, in the function and
\* in the form's inline computation.
C2_OutFinanceWins ==
    fee_in.out_finance_flag
        => /\ FeeReturned => /\ fee_out.status = "return"
                             /\ fee_out.hp_fee_to_charge = 2000 * Scale
                             /\ fee_out.incentive_earned = 0
           /\ AppFees(fee_in.financier_name, fee_in.dd_amount, TRUE,
                      fee_in.incentive_rules)
                = [hp_fee_to_charge |-> 2000 * Scale, incentive_earned |-> 0]

C2_Witness ==
    /\ FeeReturned
    /\ fee_in.out_finance_flag
    /\ fee_in.financier_name = Bank
    /\ Bank \in DOMAIN fee_in.incentive_rules
    /\ fee_in.dd_amount > 0
    /\ fee_out.hp_fee_to_charge = 2000 * Scale

\* C3: flag false, financier other than "Bank" with a rule: fee 2000; a
\* percentage rule of value r gives incentive = booking amount * r, a
\* fixed-per-file rule of value v gives incentive = v whatever the booking
\* amount; the form's inline computation agrees.
C3_RuleIncentive ==
    (/\ ~fee_in.out_finance_flag
     /\ fee_in.financier_name # Bank
     /\ fee_in.financier_name \in DOMAIN fee_in.incentive_rules)
        => LET rule == fee_in.incentive_rules[fee_in.financier_name]
               app == AppFees(fee_in.financier_name, fee_in.dd_amount, FALSE,
                              fee_in.incentive_rules)
           IN  /\ FeeReturned =>
                    /\ fee_out.status = "return"
                    /\ fee_out.hp_fee_to_charge = 2000 * Scale
                    /\ rule.type = percentage_dd =>
                         fee_out.incentive_earned * Scale = fee_in.dd_amount * rule.value
                    /\ rule.type = fixed_file =>
                         fee_out.incentive_earned = rule.value
               /\ app.hp_fee_to_charge = 2000 * Scale
               /\ rule.type = percentage_dd =>
                    app.incentive_earned * Scale = fee_in.dd_amount * rule.value
               /\ rule.type = fixed_file => app.incentive_earned = rule.value

C3_Witness ==
    /\ FeeReturned
    /\ ~fee_in.out_finance_flag
    /\ fee_in.financier_name = HDFC
    /\ HDFC \in DOMAIN fee_in.incentive_rules
    /\ fee_in.incentive_rules[HDFC].type = percentage_dd
    /\ fee_in.dd_amount = 2 * DDStep
    /\ fee_out.incentive_earned = 4000 * Scale

\* C4: flag false, name not "Bank" and without an entry in the rule mapping
\* (for instance a name typed in during the session): the call returns
\* normally with fee 2000 and incentive 0; no error outcome.
C4_UnknownFinancier ==
    (/\ FeeReturned
     /\ ~fee_in.out_finance_flag
     /\ fee_in.financier_name # Bank
     /\ fee_in.financier_name \notin DOMAIN fee_in.incentive_rules)
        => /\ fee_out.status = "return"
           /\ fee_out.hp_fee_to_charge = 2000 * Scale
           /\ fee_out.incentive_earned = 0

C4_Witness ==
    /\ FeeReturned
    /\ ~fee_in.out_finance_flag
    /\ fee_in.financier_name = NewCo
    /\ DOMAIN fee_in.incentive_rules = RuleKeys
    /\ fee_in.dd_amount > 0
    /\ fee_out.status = "return"
    /\ fee_out.incentive_earned = 0

----------------------------------------------------------------------------
(* Claims about document numbering, under SpecDc *)

HasNumber(p) == pc[p] # "start" /\ did_read[p]

\* what the cells of the starting ledger mean, written out by hand
KnownInts ==
    {<< <<"0", "0", "0", "3">>, 3 >>, << <<"0", "0", "0", "7">>, 7 >>,
     << <<"-", "5">>, 0 - 5 >>, << <<"9", "9", "9", "9", "9">>, 99999 >>}

KnownJunk == {<<"b", "a", "d">>, <<>>}

\* the integers among the cells below the header
IssuedInts(column) ==
    {ParseInt(column[i]).value :
        i \in {j \in 2 .. Len(column) : ParseInt(column[j]).ok}}

SetMax(S) == CHOOSE m \in S : \A k \in S : k <= m

ExpectedNext(column) ==
    IF IssuedInts(column) = {} THEN 1 ELSE SetMax(IssuedInts(column)) + 1

IsFiveDigits(text) == Len(text) = 5 /\ \A i \in 1 .. Len(text) : IsDigit(text[i])

\* C8: the next number is (largest entry that parses as an integer) + 1, and
\* 1 when there is no entry or none parses; entries that do not parse are
\* skipped without an error.  ["0003","bad","0007"] gives 8, [] gives 1.
C8_NextIsMaxPlusOne ==
    \A p \in Procs :
        HasNumber(p) =>
            /\ ParseInt(dc[p]) = [ok |-> TRUE, value |-> ExpectedNext(seen[p])]
            /\ \A i \in 2 .. Len(seen[p]) :
                  /\ \A kv \in KnownInts :
                        seen[p][i] = kv[1] => /\ kv[2] \in IssuedInts(seen[p])
                                              /\ ParseInt(dc[p]).value > kv[2]
                  /\ seen[p][i] \in KnownJunk => ~ParseInt(seen[p][i]).ok
            /\ (\A i \in 2 .. Len(seen[p]) : seen[p][i] \in KnownJunk)
                  => dc[p] = <<"0", "0", "0", "0", "1">>
            /\ Tail(seen[p]) = << <<"0", "0", "0", "3">>, <<"b", "a", "d">>,
                                  <<"0", "0", "0", "7">> >>
                  => dc[p] = <<"0", "0", "0", "0", "8">>

C8_Witness ==
    \E p \in Procs :
        /\ HasNumber(p)
        /\ Tail(seen[p]) = << <<"0", "0", "0", "3">>, <<"b", "a", "d">>,
                              <<"0", "0", "0", "7">> >>
        /\ dc[p] = <<"0", "0", "0", "0", "8">>

\* C9 as claimed: for every ledger history, and also when the ledger read
\* fails, the returned document number is exactly 5 decimal digits.
C9_AlwaysFiveDigits ==
    \A p \in Procs : pc[p] # "start" => IsFiveDigits(dc[p])

\* C9 amended: when the read succeeds and the next number is within
\* 0 .. 99999 the result is exactly 5 decimal digits, zero-padded, that read
\* back as that number; a larger number keeps all its digits (more than 5), a
\* negative one carries a minus sign, a failed read gives "DC-ERROR-" and the
\* time; the result is never shorter than 5 characters.
C9_FiveDigitsInRange ==
    \A p \in Procs :
        pc[p] # "start" =>
            IF did_read[p]
            THEN LET n == ExpectedNext(seen[p])
                 IN  /\ Len(dc[p]) >= 5
                     /\ (0 <= n /\ n <= 99999) =>
                            /\ IsFiveDigits(dc[p])
                            /\ ParseInt(dc[p]).value = n
                     /\ n > 99999 =>
                            /\ Len(dc[p]) > 5
                            /\ \A i \in 1 .. Len(dc[p]) : IsDigit(dc[p][i])
                     /\ n < 0 => dc[p][1] = "-"
            ELSE \E hhmm \in Clock :
                    dc[p] = <<"D", "C", "-", "E", "R", "R", "O", "R", "-">> \o hhmm

C9_Witness ==
    \E p \in Procs :
        /\ HasNumber(p)
        /\ seen[p][Len(seen[p])] = <<"0", "0", "0", "0", "8">>
        /\ dc[p] = <<"0", "0", "0", "0", "9">>

----------------------------------------------------------------------------
(* Claims about the form and its orders, under SpecUi *)

\* C5: for non-negative cost, fee, incentive and booking amount, with
\* total_obligation = cost + fee + incentive, the required down payment is
\* max(0, total_obligation - booking_amount) and the financed amount is
\* max(0, total_obligation - booking_amount - down_payment), which is 0
\* whenever booking_amount + down_payment >= total_obligation.
C5_ObligationArithmetic ==
    (/\ ui.sale_type = "Finance"
     /\ widgets.final_cost >= 0
     /\ ui.hp_fee_to_charge >= 0
     /\ ui.incentive_earned >= 0
     /\ ui.dd_amount >= 0)
        => LET total == widgets.final_cost + ui.hp_fee_to_charge + ui.incentive_earned
           IN  /\ ui.total_customer_obligation = total
               /\ ui.down_payment = Max(0, total - ui.dd_amount)
               /\ ui.financed_amount
                    = Max(0, (total - ui.dd_amount) - ui.down_payment)
               /\ ui.dd_amount + ui.down_payment >= total => ui.financed_amount = 0

C5_Witness ==
    /\ ui.sale_type = "Finance"
    /\ ui.incentive_earned > 0
    /\ ui.dd_amount > ui.total_customer_obligation
    /\ ui.down_payment = 0
    /\ ui.financed_amount = 0

\* C6: a Finance sale whose selected financier is "Bank", with the
\* external-financing flag unset, is charged fee 500 and incentive 0 whatever
\* banker name is typed; with negotiated cost 500000 and booking amount
\* 100000: total obligation 500500, down payment 400500, financed amount 0.
C6_BankSelectedBankFee ==
    (/\ widgets.sale_type = "Finance"
     /\ widgets.financier_sel = Bank
     /\ ~widgets.out_finance_flag)
        => /\ ui.hp_fee_to_charge = 500 * Scale
           /\ ui.incentive_earned = 0
           /\ (widgets.final_cost = 500000 * Scale /\ widgets.dd_amount = 100000 * Scale)
                => /\ ui.total_customer_obligation = 500500 * Scale
                   /\ ui.down_payment = 400500 * Scale
                   /\ ui.financed_amount = 0
           /\ order # NoOrder => /\ order.hp_fee = 500 * Scale
                                 /\ order.incentive_earned = 0

----------------------------------------------------------------------------
(* Claims about the accessory invoice numbers, under SpecInv *)

\* what the cells of the invoice columns are worth, read by hand
InvKnown == {<<C1005, 1005>>, <<C2500, 2500>>, <<CZero, 0>>}

InvText ==
    [firm_id \in {1, 2} |->
        IF firm_id = 1
        THEN (1001 :> <<"K", "M", "-", "1", "0", "0", "1">>)
             @@ (1006 :> <<"K", "M", "-", "1", "0", "0", "6">>)
             @@ (2501 :> <<"K", "M", "-", "2", "5", "0", "1">>)
        ELSE (2001 :> <<"V", "A", "-", "2", "0", "0", "1">>)
             @@ (2501 :> <<"V", "A", "-", "2", "5", "0", "1">>)]

FrameColumn(frame, name) == IF name \in DOMAIN frame THEN frame[name] ELSE <<>>

ColumnInts(column) ==
    {k[2] : k \in {e \in InvKnown : \E i \in 1 .. Len(column) : column[i] = e[1]}}

ExpectedInvSeq(floor, column) == SetMax(ColumnInts(column) \cup {floor}) + 1

\* C11: the invoice number of firm 1 is "KM-" and one more than the larger of
\* 1000 and the largest number in column Acc_Inv_1_No, that of firm 2 is "VA-"
\* and one more than the larger of 2000 and the largest number in column
\* Acc_Inv_2_No; cells that are not numbers are ignored and neither firm's
\* number depends on the other firm's column.
C11_InvoiceSeries ==
    (inv_out.status = "return" /\ inv_out.firm_id \in {1, 2}) =>
        LET own == IF inv_out.firm_id = 1
                   THEN ExpectedInvSeq(1000, FrameColumn(inv_in, Acc_Inv_1_No))
                   ELSE ExpectedInvSeq(2000, FrameColumn(inv_in, Acc_Inv_2_No))
        IN  /\ inv_out.result.seq = own
            /\ inv_out.result.prefixed = InvText[inv_out.firm_id][own]

C11_Witness ==
    /\ inv_out.status = "return"
    /\ inv_out.firm_id = 2
    /\ Acc_Inv_1_No \in DOMAIN inv_in
    /\ \E i, j \in 1 .. Len(inv_in[Acc_Inv_2_No]) :
          /\ inv_in[Acc_Inv_2_No][i] = CBad
          /\ inv_in[Acc_Inv_2_No][j] = C1005
          /\ inv_in[Acc_Inv_1_No][j] = C2500
    /\ inv_out.result.seq = 2001

----------------------------------------------------------------------------
(* Claims about the accessory bills, under SpecAcc *)

\* what the price and name cells are worth, read by hand
PriceKnown == {<<P250, 250 * Scale>>, <<P9950, 9950>>}

NameKnown == {<<Helmet, Helmet>>, <<Guard, <<"G", "r", "d">>>>, <<Mat, Mat>>}

PriceOf(cell) == (CHOOSE k \in PriceKnown : k[1] = cell)[2]

NameOf(cell) == (CHOOSE k \in NameKnown : k[1] = cell)[2]

IsBilledSlot(slot) ==
    /\ \E k \in NameKnown : k[1] = slot.name
    /\ \E k \in PriceKnown : k[1] = slot.price

\* the BOM row the call's model is keyed to
CalledHasRow == acc_out.model_id \in {PaddedA1, B2}

CalledRow ==
    IF acc_out.model_id = PaddedA1 THEN acc_in.accessory_bom_df[1]
    ELSE acc_in.accessory_bom_df[2]

BilledSlots(firm_id) ==
    {i \in (IF firm_id = 1 THEN 1 .. 4 ELSE 5 .. 10) : IsBilledSlot(CalledRow.slots[i])}

NthSlot(slots, k) == CHOOSE i \in slots : Cardinality({j \in slots : j < i}) = k - 1

ItemsOfFirm(bills, firm_id) ==
    IF \E n \in 1 .. Len(bills) : bills[n].firm_id = firm_id
    THEN bills[CHOOSE n \in 1 .. Len(bills) : bills[n].firm_id = firm_id].accessories
    ELSE <<>>

AccReturned == acc_out.status = "return"

\* C12: a slot of the model's BOM row is a line item exactly when its name is
\* not blank and its price is positive; the line items of slots 1-4 are on the
\* bill of firm 1 only and those of slots 5-10 on the bill of firm 2 only, each
\* once, in slot order, with quantity 1.
C12_SlotsSplit ==
    (AccReturned /\ CalledHasRow) =>
        \A firm_id \in {1, 2} :
            LET items == ItemsOfFirm(acc_out.bills, firm_id)
                slots == BilledSlots(firm_id)
            IN  /\ Len(items) = Cardinality(slots)
                /\ \A k \in 1 .. Len(items) :
                      LET slot == CalledRow.slots[NthSlot(slots, k)]
                      IN  /\ items[k].name = NameOf(slot.name)
                          /\ items[k].price = PriceOf(slot.price)
                          /\ items[k].qty = 1

\* the spec's example: prices in slots 1, 2 and 5
C12_Witness ==
    /\ AccReturned
    /\ acc_out.model_id = PaddedA1
    /\ BilledSlots(1) = {1, 2}
    /\ BilledSlots(2) = {5}
    /\ CalledRow.slots[1].price # CalledRow.slots[2].price
    /\ Len(acc_out.bills) = 2
    /\ Len(acc_out.bills[1].accessories) = 2
    /\ Len(acc_out.bills[2].accessories) = 1

RECURSIVE SeqSum(_)
SeqSum(s) == IF s = <<>> THEN 0 ELSE s[Len(s)] + SeqSum(SubSeq(s, 1, Len(s) - 1))

\* C13: in every returned bill each line total is its unit price, the subtotal
\* is the sum of the line totals, the tax is the subtotal times the configured
\* rate and the grand total is subtotal plus tax; with the rate at 0 the grand
\* total equals the subtotal.
C13_BillArithmetic ==
    AccReturned =>
        \A n \in 1 .. Len(acc_out.bills) :
            LET bill == acc_out.bills[n]
                totals == [k \in 1 .. Len(bill.accessories) |-> bill.accessories[k].total]
            IN  /\ \A k \in 1 .. Len(bill.accessories) :
                      bill.accessories[k].total = bill.accessories[k].price
                /\ bill.subtotal = SeqSum(totals)
                /\ bill.tax = (bill.subtotal * GST_RATE_CALC) \div Scale
                /\ bill.grand_total = bill.subtotal + bill.tax
                /\ GST_RATE_CALC = 0 => bill.grand_total = bill.subtotal

C13_Witness ==
    /\ AccReturned
    /\ \E n \in 1 .. Len(acc_out.bills) :
          /\ Len(acc_out.bills[n].accessories) = 2
          /\ acc_out.bills[n].accessories[1].price = 250 * Scale
          /\ acc_out.bills[n].accessories[2].price = 9950
          /\ acc_out.bills[n].grand_total = 34950

\* C14: both functions return no bill, one bill or two, at most one per firm
\* and firm 1 before firm 2; a firm without a billed slot has no bill, every
\* returned bill has a positive grand total and at least one line item, and a
\* model without a BOM row gets no bill.
C14_BillsPerFirm ==
    AccReturned =>
        /\ Len(acc_out.bills) <= 2
        /\ \A n \in 1 .. Len(acc_out.bills) :
              /\ acc_out.bills[n].firm_id \in {1, 2}
              /\ acc_out.bills[n].grand_total > 0
              /\ Len(acc_out.bills[n].accessories) >= 1
        /\ \A m, n \in 1 .. Len(acc_out.bills) :
              m < n => acc_out.bills[m].firm_id < acc_out.bills[n].firm_id
        /\ CalledHasRow =>
              \A firm_id \in {1, 2} :
                  BilledSlots(firm_id) = {} =>
                      \A n \in 1 .. Len(acc_out.bills) : acc_out.bills[n].firm_id # firm_id
        /\ ~CalledHasRow => acc_out.bills = <<>>

\* generate_accessory_bills returns the bill of firm 2 alone
C14_Witness ==
    /\ AccReturned
    /\ acc_out.numbered
    /\ acc_out.model_id = PaddedA1
    /\ CalledRow.slots[4].name = Mat
    /\ CalledRow.slots[10].price = P250
    /\ Len(acc_out.bills) = 1
    /\ acc_out.bills[1].firm_id = 2
    /\ acc_out.bills[1].Acc_Inv_Seq = 2501

----------------------------------------------------------------------------
(* Claims about submissions and start-up, under SpecUi *)

Submitted == run.status = "submitted"

Blocked == outcome \in {"error_customer", "error_banker"}

RECURSIVE KeysOf(_)
KeysOf(record_data) ==
    IF record_data = <<>> THEN <<>>
    ELSE <<Head(record_data)[1]>> \o KeysOf(Tail(record_data))

\* C15: the export call of the submission flow returns, for every order it
\* has built, a record with the fixed keys in their fixed order, in which a
\* missing banker name is the empty string and the accessory invoice numbers
\* of an order without accessory bills are 0.
C15_FlowExportsFixedKeys ==
    order # NoOrder =>
        LET export == AppExportCall(order)
        IN  /\ export.status = "return"
            /\ KeysOf(export.record_data) = ExportKeys
            /\ order.banker_name = Empty => Field(export.record_data, "Banker_Name") = Empty
            /\ Field(export.record_data, "Acc_Inv_1_No") = 0
            /\ Field(export.record_data, "Acc_Inv_2_No") = 0

\* C16: a submission of a Finance sale with "Bank" selected and an empty or
\* blank banker name is blocked with an error: no order is built, no row is
\* appended and no document is offered.
C16_BlankBankerBlocked ==
    (/\ Submitted
     /\ widgets.sale_type = "Finance"
     /\ widgets.financier_sel = Bank
     /\ Strip(widgets.banker_name) = Empty)
        => /\ Blocked
           /\ order = NoOrder
           /\ ~run.appended
           /\ ~run.offered

\* C17: a submission that passes validation while the worksheet takes appends
\* appends one record and offers one document, for Cash and Finance sales.
C17_ValidSubmissionCompletes ==
    (Submitted /\ ~Blocked /\ run.ledger_ok)
        => /\ run.appended
           /\ run.offered
           /\ outcome = "offered"

\* C18: a submission that passes validation while the worksheet refuses the
\* append reports the failure and still attempts the rendering.
C18_AppendFailureStillRenders ==
    (Submitted /\ ~Blocked /\ ~run.ledger_ok)
        => /\ run.save_error
           /\ run.render_attempted
           /\ ~run.appended

LoadFailed ==
    /\ run.status = "loaded"
    /\ \/ ~run.had_client /\ ~run.env.auth_ok
       \/ ~run.env.open_ok
       \/ ~run.env.worksheets_ok

----------------------------------------------------------------------------
(* Claims about one SalesOrder object, under SpecObj *)

\* C20 as stated: the sale kind of an existing order never changes, and
\* set_finance_details is applied only to an order that is already Finance.
C20_KindFixed ==
    [][obj # NoOrder =>
          /\ obj'.sale_type = obj.sale_type
          /\ (obj_op' = "set_finance_details" /\ obj_vars' # obj_vars)
                => obj.sale_type = "Finance"]_vars

\* C20, amended: every order is constructed as Cash; set_finance_details is
\* accepted on an order of either kind and leaves it Finance; export and
\* rendering keep the kind, so a Finance order never becomes Cash again.
C20_CashUntilFinanceDetails ==
    [][/\ (obj = NoOrder /\ obj' # NoOrder) => obj'.sale_type = "Cash"
       /\ obj # NoOrder =>
             /\ obj' # NoOrder
             /\ obj_op' = "set_finance_details" => obj'.sale_type = "Finance"
             /\ obj_op' # "set_finance_details" => obj'.sale_type = obj.sale_type
             /\ obj.sale_type = "Finance" => obj'.sale_type = "Finance"]_vars

\* a Cash order has become Finance and has then been exported
C20_Witness ==
    /\ obj # NoOrder
    /\ obj.sale_type = "Finance"
    /\ obj.financier_name = NACash
    /\ obj.dd_amount > 0
    /\ obj_op = "get_data_for_export"

\* C21: set_finance_details stores final cost + fee + incentive - booking
\* amount - down payment as the financed balance without flooring it, so it
\* is negative when the booking amount exceeds the total obligation, while
\* the form's financed amount for the same inputs is floored at 0.
C21_BalanceUnclamped ==
    (order # NoOrder /\ order.sale_type = "Finance") =>
        LET total == order.final_cost + order.hp_fee + order.incentive_earned
            balance == (total - order.dd_amount) - order.down_payment
        IN  /\ order.dd_amount = ui.dd_amount
            /\ order.down_payment = ui.down_payment
            /\ order.remaining_finance_amount = balance
            /\ ui.financed_amount = (IF balance < 0 THEN 0 ELSE balance)
            /\ order.dd_amount > total =>
                  /\ order.remaining_finance_amount < 0
                  /\ ui.financed_amount = 0

C21_Witness ==
    /\ order # NoOrder
    /\ order.sale_type = "Finance"
    /\ order.dd_amount > order.final_cost + order.hp_fee + order.incentive_earned
    /\ order.remaining_finance_amount < 0
    /\ ui.financed_amount = 0

FinanceFields == {"sale_type", "dd_amount", "down_payment", "remaining_finance_amount"}

\* C22: set_finance_details changes only the sale type, the booking amount,
\* the down payment and the financed balance of an order; export (and
\* rendering) change no field; and every order, after any operations, has
\* discount = listed price - negotiated final cost.
C22_Frame ==
    [][/\ obj # NoOrder =>
             /\ DOMAIN obj' = DOMAIN obj
             /\ \A f \in DOMAIN obj \ FinanceFields : obj'[f] = obj[f]
             /\ obj_op' \in {"get_data_for_export", "generate_pdf_challan"} => obj' = obj
       /\ obj' # NoOrder => obj'.discount = obj'.listed_price - obj'.final_cost]_vars

\* an order with a fee and a discount after set_finance_details and export
C22_Witness ==
    /\ obj # NoOrder
    /\ obj.sale_type = "Finance"
    /\ obj.hp_fee = HP_FEE_DEFAULT
    /\ obj.discount = 450000 * Scale
    /\ obj.down_payment = 402000 * Scale
    /\ obj_op = "get_data_for_export"

----------------------------------------------------------------------------
(* Claims about submissions made one after the other, under SpecDc *)

\* q read the column after p had appended its row
ReadAfter(p, q) ==
    /\ p # q
    /\ pc[p] = "done" /\ saved[p] /\ did_read[p]
    /\ pc[q] # "start" /\ did_read[q]
    /\ Len(seen[q]) = Len(seen[p]) + 1

----------------------------------------------------------------------------
(* Claims about the session and its cached loaders, under SpecSes *)

\* submission i was completed and billed firm f
Billed(i, f) == subs[i].saved /\ SeqOfFirm(subs[i].bills, f) # 0

C25_LoaderReturnsAllTables ==
    (/\ last_call # NoCall
     /\ last_call.executed
     /\ last_call.auth_ok
     /\ last_call.worksheets_ok) =>
        /\ last_call.status = "return"
        /\ last_call.value # NoData
        /\ TablesRead \subseteq DOMAIN last_call.value

====
